---- MODULE Spec2Model ----
(***************************************************************************)
(* Model of wireless-redstone-calculator.py: the tick map scheduler.       *)
(* Strings are sequences of one-character strings; an update is the tuple  *)
(* <<line_name, tail>>; tick_map is a function from the tick keys present  *)
(* to the queue (sequence) of updates of that tick.                        *)
(***************************************************************************)
EXTENDS Integers, Sequences, FiniteSets, TLC

\* ---- bounds of the explored inputs: the number of input lines, and the
\* number of characters of all the lines together ----
MaxLines == 2
MaxChars == 6

VARIABLES
  lines,            \* stripped non-empty input lines           (line 46)
  line_names,       \* the letters assigned to them              (line 47)
  tick_map,         \* tick -> queue of <<line_name, tail>>      (line 50)
  more_to_process,  \* the loop flag                             (line 57)
  current_tick,     \* the tick selected by the iteration        (line 60)
  updates,          \* the queue popped by the iteration         (line 61)
  idx,              \* position of the for loop in updates       (line 63)
  stdout,           \* lines printed to the primary channel
  stderr,           \* lines printed to the diagnostic channel
  pc                \* position of the program

vars == <<lines, line_names, tick_map, more_to_process, current_tick,
          updates, idx, stdout, stderr, pc>>

\* ---- strings ----
Digits03 == {"0", "1", "2", "3"}

\* int(c) for a digit character c
DigitVal(c) == CASE c = "0" -> 0 [] c = "1" -> 1 [] c = "2" -> 2 [] c = "3" -> 3

\* str.strip() over the whitespace character of the explored inputs
RECURSIVE LStrip(_)
LStrip(s) == IF s # <<>> /\ Head(s) = " " THEN LStrip(Tail(s)) ELSE s

RECURSIVE RStrip(_)
RStrip(s) ==
  IF s # <<>> /\ s[Len(s)] = " " THEN RStrip(SubSeq(s, 1, Len(s) - 1)) ELSE s

Strip(s) == RStrip(LStrip(s))

\* [line.strip() for line in sys.stdin if line.strip()], one line further
ReadLines(read, raw) ==
  IF Strip(raw) # <<>> THEN Append(read, Strip(raw)) ELSE read

\* chr(ord('A') + i)
Letters == <<"A", "B", "C", "D", "E", "F", "G", "H", "I", "J", "K", "L", "M",
             "N", "O", "P", "Q", "R", "S", "T", "U", "V", "W", "X", "Y", "Z">>
LineName(i) == Letters[i + 1]

LineNames(n) == [i \in 1..n |-> LineName(i - 1)]

\* RE_ELEMENT.match(tail): the matched group, or <<>> when there is no match.
\* The pattern is ^(R[0-3]]|C): an R, a digit 0..3 and a literal ']', or a C.
ReMatch(tail) ==
  IF Len(tail) >= 3 /\ tail[1] = "R" /\ tail[2] \in Digits03 /\ tail[3] = "]"
  THEN SubSeq(tail, 1, 3)
  ELSE IF Len(tail) >= 1 /\ tail[1] = "C"
       THEN <<"C">>
       ELSE <<>>

\* tail[len(element):]
RemainingTail(tail, element) == SubSeq(tail, Len(element) + 1, Len(tail))

\* ---- the tick map ----

\* the largest key taken for the smallest
SetMinLargest(S) == CHOOSE m \in S : \A k \in S : k <= m

SetMin(S) == CHOOSE m \in S : \A k \in S : m <= k

SetMax(S) == CHOOSE m \in S : \A k \in S : k <= m

\* tick_map.pop(tick): the map without that key
Pop(m, tick) == [k \in (DOMAIN m) \ {tick} |-> m[k]]

\* the update inserted at the front of the queue instead of the end
SetDefaultPrepend(m, tick, update) ==
  [k \in (DOMAIN m) \cup {tick} |->
     IF k = tick
     THEN <<update>> \o (IF tick \in DOMAIN m THEN m[tick] ELSE <<>>)
     ELSE m[k]]

\* tick_map.setdefault(tick, []).append(update)
SetDefaultAppend(m, tick, update) ==
  [k \in (DOMAIN m) \cup {tick} |->
     IF k = tick
     THEN Append(IF tick \in DOMAIN m THEN m[tick] ELSE <<>>, update)
     ELSE m[k]]

\* the queue seeded at tick 0: for line_name, line in zip(line_names, lines)
RECURSIVE SeedFrom(_, _, _, _)
SeedFrom(m, names, ls, i) ==
  IF i > Len(names) \/ i > Len(ls) THEN m
  ELSE SeedFrom(SetDefaultAppend(m, 0, <<names[i], ls[i]>>), names, ls, i + 1)

EmptyMap == [k \in {} |-> <<>>]

\* the advancement without the 1 + : delay * 2
RepeaterNextTickNoPlusOne(tick, element) == tick + DigitVal(element[2]) * 2

\* next_tick of a consumed element
RepeaterNextTick(tick, element) == tick + (1 + DigitVal(element[2])) * 2

\* the comparator's advancement forgotten
ComparatorNextTickSame(tick) == tick

ComparatorNextTick(tick) == tick + 2

\* ",".join(names)
RECURSIVE Join(_)
Join(names) ==
  IF names = <<>> THEN <<>>
  ELSE IF Len(names) = 1 THEN <<names[1]>>
       ELSE <<names[1], ",">> \o Join(Tail(names))

\* sorted(tick_map.items())
RECURSIVE SortedItems(_)
SortedItems(m) ==
  IF DOMAIN m = {} THEN <<>>
  ELSE LET t == SetMin(DOMAIN m) IN <<<<t, m[t]>>>> \o SortedItems(Pop(m, t))

\* the lines "Tick {tick}: {updates}" of the dump
DumpLines(m) ==
  [i \in 1..Len(SortedItems(m)) |->
     <<"Tick", SortedItems(m)[i][1], SortedItems(m)[i][2]>>]

\* ---- the explored inputs ----
\* the pieces the input lines are made of: the elements of the documented
\* grammar, the elements RE_ELEMENT matches, and a character that is neither
Chunks == {<<"C">>, <<"X">>, <<"R", "0">>,
           <<"R", "0", "]">>, <<"R", "1", "]">>, <<"R", "2", "]">>,
           <<"R", "3", "]">>}

\* the lines of exactly n characters made of these pieces
RECURSIVE ChunkLines(_)
ChunkLines(n) ==
  IF n = 0 THEN {<<>>}
  ELSE UNION {{c \o l : l \in ChunkLines(n - Len(c))} :
                c \in {d \in Chunks : Len(d) <= n}}

\* the raw lines whose stripped text has at most n characters: the lines
\* above, an empty line, a blank line and a line with whitespace around it
RawLines(n) ==
  UNION {ChunkLines(k) : k \in 0..n}
    \cup {<<" ">>}
    \cup {<<" ">> \o l \o <<" ">> : l \in ChunkLines(IF n >= 1 THEN 1 ELSE 0)}

RECURSIVE TotalChars(_)
TotalChars(ls) == IF ls = <<>> THEN 0 ELSE Len(Head(ls)) + TotalChars(Tail(ls))

\* ---- the program ----
Init ==
  /\ lines = <<>>
  /\ line_names = <<>>
  /\ tick_map = EmptyMap
  /\ more_to_process = FALSE
  /\ current_tick = 0
  /\ updates = <<>>
  /\ idx = 1
  /\ stdout = <<>>
  /\ stderr = <<>>
  /\ pc = "read"

\* line 46, one line of sys.stdin: lines gets line.strip() unless that is empty
ReadLine ==
  /\ pc = "read"
  /\ Len(lines) < MaxLines
  /\ \E raw \in RawLines(MaxChars - TotalChars(lines)) :
       lines' = ReadLines(lines, raw)
  /\ UNCHANGED <<line_names, tick_map, more_to_process, current_tick, updates,
                 idx, stdout, stderr, pc>>

\* lines 46-57: the input ends: name the lines, seed tick 0, set the flag
EndOfInput ==
  /\ pc = "read"
  /\ line_names' = LineNames(Len(lines))
  /\ tick_map' = SeedFrom(EmptyMap, line_names', lines, 1)
  /\ more_to_process' = TRUE
  /\ pc' = "while"
  /\ UNCHANGED <<lines, current_tick, updates, idx, stdout, stderr>>

\* the program is at the test of the while loop
AtWhile == pc = "while" \/ (pc = "for" /\ idx > Len(updates))

\* the iteration selects some key of the map, not the minimum
SelectTickAnyKey ==
  /\ AtWhile
  /\ more_to_process
  /\ \E t \in DOMAIN tick_map :
       /\ current_tick' = t
       /\ updates' = tick_map[t]
       /\ tick_map' = Pop(tick_map, t)
  /\ more_to_process' = FALSE
  /\ idx' = 1
  /\ pc' = "for"
  /\ UNCHANGED <<lines, line_names, stdout, stderr>>

\* the queue read with tick_map[current_tick], the key left in the map
SelectTickNoPop ==
  /\ AtWhile
  /\ more_to_process
  /\ DOMAIN tick_map # {}
  /\ more_to_process' = FALSE
  /\ current_tick' = SetMin(DOMAIN tick_map)
  /\ updates' = tick_map[current_tick']
  /\ idx' = 1
  /\ pc' = "for"
  /\ UNCHANGED <<lines, line_names, tick_map, stdout, stderr>>

\* lines 58-61: the flag is set and the map has a key: select and pop the minimum
SelectTick ==
  /\ AtWhile
  /\ more_to_process
  /\ DOMAIN tick_map # {}
  /\ more_to_process' = FALSE
  /\ current_tick' = SetMin(DOMAIN tick_map)
  /\ updates' = tick_map[current_tick']
  /\ tick_map' = Pop(tick_map, current_tick')
  /\ idx' = 1
  /\ pc' = "for"
  /\ UNCHANGED <<lines, line_names, stdout, stderr>>

\* lines 58-60: min() of an empty sequence raises ValueError, which nothing catches
MinValueError ==
  /\ AtWhile
  /\ more_to_process
  /\ DOMAIN tick_map = {}
  /\ more_to_process' = FALSE
  /\ stderr' = Append(stderr, <<"ValueError">>)
  /\ pc' = "crashed"
  /\ UNCHANGED <<lines, line_names, tick_map, current_tick, updates,
                 idx, stdout>>

\* the update the for loop is at
AtUpdate == pc = "for" /\ idx <= Len(updates)
CurName == updates[idx][1]
CurTail == updates[idx][2]

\* lines 64-65: an empty tail is skipped
SkipEmpty ==
  /\ AtUpdate
  /\ CurTail = <<>>
  /\ idx' = idx + 1
  /\ UNCHANGED <<lines, line_names, tick_map, more_to_process,
                 current_tick, updates, stdout, stderr, pc>>

\* the flag set for every non-empty tail, before the match is tested
WarnInvalidSetsFlag ==
  /\ AtUpdate
  /\ CurTail # <<>>
  /\ ReMatch(CurTail) = <<>>
  /\ more_to_process' = TRUE
  /\ stderr' = Append(stderr, <<"Invalid element", CurName, current_tick, CurTail>>)
  /\ idx' = idx + 1
  /\ UNCHANGED <<lines, line_names, tick_map, current_tick, updates, stdout, pc>>

\* lines 67-70: no match: a warning, and the update is not rescheduled
WarnInvalid ==
  /\ AtUpdate
  /\ CurTail # <<>>
  /\ ReMatch(CurTail) = <<>>
  /\ stderr' = Append(stderr, <<"Invalid element", CurName, current_tick, CurTail>>)
  /\ idx' = idx + 1
  /\ UNCHANGED <<lines, line_names, tick_map, more_to_process,
                 current_tick, updates, stdout, pc>>

\* the flag set by every consumed element, whatever remains of the tail
RescheduleFlagAlways(next_tick, remaining_tail) ==
  /\ more_to_process' = TRUE
  /\ tick_map' = SetDefaultAppend(tick_map, next_tick, <<CurName, remaining_tail>>)
  /\ idx' = idx + 1
  /\ UNCHANGED <<lines, line_names, current_tick, updates, stdout,
                 stderr, pc>>

\* lines 71-74 and 76-82: consume the element and reschedule the rest
Reschedule(next_tick, remaining_tail) ==
  /\ more_to_process' = (more_to_process \/ remaining_tail # <<>>)
  /\ tick_map' = SetDefaultAppend(tick_map, next_tick, <<CurName, remaining_tail>>)
  /\ idx' = idx + 1
  /\ UNCHANGED <<lines, line_names, current_tick, updates, stdout,
                 stderr, pc>>

\* lines 76-79
ConsumeRepeater ==
  /\ AtUpdate
  /\ CurTail # <<>>
  /\ ReMatch(CurTail) # <<>>
  /\ ReMatch(CurTail)[1] = "R"
  /\ Reschedule(RepeaterNextTick(current_tick, ReMatch(CurTail)),
                RemainingTail(CurTail, ReMatch(CurTail)))

\* lines 80-82 (the else of lines 83-84 is dead: a match starts with R or C)
ConsumeComparator ==
  /\ AtUpdate
  /\ CurTail # <<>>
  /\ ReMatch(CurTail) # <<>>
  /\ ReMatch(CurTail)[1] # "R"
  /\ ReMatch(CurTail)[1] = "C"
  /\ Reschedule(ComparatorNextTick(current_tick),
                RemainingTail(CurTail, ReMatch(CurTail)))

\* line 58: the flag is clear: the loop ends
ExitLoop ==
  /\ AtWhile
  /\ ~more_to_process
  /\ pc' = "final"
  /\ UNCHANGED <<lines, line_names, tick_map, more_to_process,
                 current_tick, updates, idx, stdout, stderr>>

\* lines 87-88
FinalTick == IF DOMAIN tick_map # {} THEN SetMax(DOMAIN tick_map) ELSE 0
FinalUpdates ==
  IF FinalTick \in DOMAIN tick_map THEN tick_map[FinalTick] ELSE <<>>

\* the final check without the test of the tails
IsMalformedCountOnly == Len(FinalUpdates) # Len(line_names)

\* line 90
IsMalformed ==
  \/ Len(FinalUpdates) # Len(line_names)
  \/ \E i \in 1..Len(FinalUpdates) : FinalUpdates[i][2] # <<>>

\* lines 91-94: the warning and the dump of the map, to the diagnostic channel
PrintDiagnostics ==
  /\ pc = "final"
  /\ IsMalformed
  /\ stderr' = stderr \o <<<<"Final tick warning">>, <<"Final tick map:">>>>
                      \o DumpLines(tick_map)
  /\ pc' = "Malformed"
  /\ UNCHANGED <<lines, line_names, tick_map, more_to_process,
                 current_tick, updates, idx, stdout>>

\* the result printed from line_names, in input order
PrintResultInputOrder ==
  /\ pc = "final"
  /\ ~IsMalformed
  /\ stdout' = Append(stdout, Join(line_names))
  /\ pc' = "Completed"
  /\ UNCHANGED <<lines, line_names, tick_map, more_to_process,
                 current_tick, updates, idx, stderr>>

\* lines 96-98: the line names of the final queue, to the primary channel
PrintResult ==
  /\ pc = "final"
  /\ ~IsMalformed
  /\ stdout' = Append(stdout, Join([i \in 1..Len(FinalUpdates) |-> FinalUpdates[i][1]]))
  /\ pc' = "Completed"
  /\ UNCHANGED <<lines, line_names, tick_map, more_to_process,
                 current_tick, updates, idx, stderr>>

Next ==
  \/ ReadLine
  \/ EndOfInput
  \/ SelectTick
  \/ MinValueError
  \/ SkipEmpty
  \/ WarnInvalid
  \/ ConsumeRepeater
  \/ ConsumeComparator
  \/ ExitLoop
  \/ PrintDiagnostics
  \/ PrintResult

Spec == Init /\ [][Next]_vars

\* the program only stops where it ends; every step it can take, it takes
FairSpec == Spec /\ WF_vars(Next)

TypeOK ==
  /\ pc \in {"read", "while", "for", "final", "Completed", "Malformed", "crashed"}
  /\ more_to_process \in BOOLEAN
  /\ idx \in 1..(Len(updates) + 1)
  /\ Len(lines) = Len(line_names)

\* ---- the grammar of the documentation: ((R[0-3])|C)+ ----
\* length of the element a string starts with: R and a digit 0..3, or C; else 0
GrammarTokenLen(s) ==
  IF Len(s) >= 2 /\ s[1] = "R" /\ s[2] \in Digits03 THEN 2
  ELSE IF Len(s) >= 1 /\ s[1] = "C" THEN 1
       ELSE 0

RECURSIVE GrammarElements(_)
\* s is a (possibly empty) sequence of elements
GrammarElements(s) ==
  \/ s = <<>>
  \/ /\ GrammarTokenLen(s) > 0
     /\ GrammarElements(SubSeq(s, GrammarTokenLen(s) + 1, Len(s)))

GrammarValid(s) == s # <<>> /\ GrammarElements(s)

RECURSIVE AdvanceSum(_)
\* the tick at which a grammar-valid line, simulated on its own from tick 0,
\* reaches the empty remainder: the sum of its elements' advancements
AdvanceSum(s) ==
  IF s = <<>> \/ GrammarTokenLen(s) = 0 THEN 0
  ELSE (IF s[1] = "R" THEN (1 + DigitVal(s[2])) * 2 ELSE 2)
       + AdvanceSum(SubSeq(s, GrammarTokenLen(s) + 1, Len(s)))

AllGrammarValid == \A i \in 1..Len(lines) : GrammarValid(lines[i])

Ended == pc \in {"Completed", "Malformed", "crashed"}

\* the index of a line name
NameIndex(name) == CHOOSE i \in 1..Len(Letters) : Letters[i] = name

\* the line names with an update anywhere in the tick map
NamesInMap ==
  UNION {{tick_map[k][i][1] : i \in 1..Len(tick_map[k])} : k \in DOMAIN tick_map}

\* the line names an invalid-element warning was printed for
WarnedNames ==
  {stderr[k][2] : k \in {j \in 1..Len(stderr) : stderr[j][1] = "Invalid element"}}

\* ---- the claims ----

\* C1: for a non-empty list of grammar-valid lines the run ends in Completed
\* if and only if the sums of the lines' element advancements are all equal.
C1_CompletedIffSameTick ==
  (Ended /\ lines # <<>> /\ AllGrammarValid) =>
    (pc = "Completed" <=>
       \A i, j \in 1..Len(lines) : AdvanceSum(lines[i]) = AdvanceSum(lines[j]))

\* C2: at every position of a remainder R followed by a digit 0..3 is
\* recognised as a repeater and C as a comparator, so no update of a
\* grammar-valid line is dropped with an invalid-element warning.
C2_TokensRecognised ==
  /\ (AtUpdate /\ GrammarTokenLen(CurTail) > 0) =>
       Len(ReMatch(CurTail)) = GrammarTokenLen(CurTail)
  /\ \A name \in WarnedNames : ~GrammarValid(lines[NameIndex(name)])

\* C3: no input is fatal: the run never aborts with an unhandled error, and a
\* run that ended printed a result (Completed) or nothing but diagnostics
\* (Malformed).
C3_NeverAborts ==
  /\ pc # "crashed"
  /\ pc = "Completed" => stdout # <<>>
  /\ pc = "Malformed" => (stdout = <<>> /\ stderr # <<>>)

\* C4: n >= 1 copies of a grammar-valid line end in Completed and the result
\* lists the n line names in input order.
C4_IdenticalLinesComplete ==
  (Ended /\ lines # <<>> /\ GrammarValid(lines[1])
         /\ \A i \in 1..Len(lines) : lines[i] = lines[1]) =>
    (pc = "Completed" /\ stdout = <<Join(LineNames(Len(lines)))>>)

IsPrefix(a, b) == Len(a) <= Len(b) /\ SubSeq(b, 1, Len(a)) = a

\* C5: the order of the updates inside each tick's queue is the order of
\* insertion: the seed of tick 0 is in input order; a step leaves every queue
\* of the map as it is or appends the update being processed at its end; the
\* only queue a step removes is the selected one, moved whole and in order.
C5_TiePreservingMerge ==
  [][
    /\ (pc = "read" /\ pc' # "read" /\ lines # <<>>) =>
         /\ DOMAIN tick_map' = {0}
         /\ Len(tick_map'[0]) = Len(lines)
         /\ \A i \in 1..Len(lines) : tick_map'[0][i] = <<LineName(i - 1), lines[i]>>
    /\ \A k \in DOMAIN tick_map :
         \/ /\ AtWhile /\ pc' = "for"
            /\ k = current_tick'
            /\ updates' = tick_map[k]
            /\ k \notin DOMAIN tick_map'
         \/ /\ k \in DOMAIN tick_map'
            /\ IsPrefix(tick_map[k], tick_map'[k])
            /\ Len(tick_map'[k]) <= Len(tick_map[k]) + 1
            /\ Len(tick_map'[k]) = Len(tick_map[k]) + 1 =>
                 (AtUpdate /\ tick_map'[k][Len(tick_map'[k])][1] = CurName)
    /\ \A k \in (DOMAIN tick_map') \ (DOMAIN tick_map) :
         \/ pc = "read"
         \/ (AtUpdate /\ Len(tick_map'[k]) = 1 /\ tick_map'[k][1][1] = CurName)
  ]_vars

\* a queue that holds line B before line A: A was re-inserted from a later tick
C5_Witness ==
  \E k \in DOMAIN tick_map :
    /\ Len(tick_map[k]) >= 2
    /\ tick_map[k][1][1] = "B"
    /\ tick_map[k][2][1] = "A"

\* C6: a step that consumes an element of the update processed at tick t
\* appends the update, with a shorter tail, to the queue of tick t + a, where
\* a = (1 + delay) * 2 in {2,4,6,8} for a repeater and a = 2 for a comparator.
C6_Progress ==
  [][
    (AtUpdate /\ idx' = idx + 1 /\ CurTail # <<>> /\ stderr' = stderr) =>
      \E a \in {2, 4, 6, 8} :
        /\ CurTail[1] = "C" => a = 2
        /\ CurTail[1] = "R" => a = (1 + DigitVal(CurTail[2])) * 2
        /\ current_tick + a >= current_tick + 2
        /\ current_tick + a \in DOMAIN tick_map'
        /\ LET q == tick_map'[current_tick + a]
               before == IF current_tick + a \in DOMAIN tick_map
                         THEN Len(tick_map[current_tick + a]) ELSE 0
           IN /\ Len(q) = before + 1
              /\ q[Len(q)][1] = CurName
              /\ Len(q[Len(q)][2]) < Len(CurTail)
  ]_vars

\* a repeater of delay 3 consumed at a tick after 0: its update sits 8 ticks on
C6_Witness ==
  /\ pc = "for" /\ idx > 1 /\ current_tick >= 2
  /\ Len(updates[idx - 1][2]) >= 3
  /\ updates[idx - 1][2][1] = "R" /\ updates[idx - 1][2][2] = "3"
  /\ current_tick + 8 \in DOMAIN tick_map
  /\ \E i \in 1..Len(tick_map[current_tick + 8]) :
       tick_map[current_tick + 8][i][1] = updates[idx - 1][1]

\* C7: for every input the loop ends and the final check is reached.
C7_FinalCheckReached == <>(pc = "final")

\* the queue at the maximum tick key holds one update per input line, all
\* with an empty tail
FinalQueueComplete ==
  /\ DOMAIN tick_map # {}
  /\ LET q == tick_map[SetMax(DOMAIN tick_map)]
     IN /\ Len(q) = Len(lines)
        /\ \A i \in 1..Len(q) : q[i][2] = <<>>

C9_UnparseableIsMalformed ==
  /\ WarnedNames \cap NamesInMap = {}
  /\ (Ended /\ \E i \in 1..Len(lines) : ~GrammarValid(lines[i])) =>
       (pc = "Malformed" /\ stdout = <<>>)
  /\ (Ended /\ lines = <<<<"X">>>>) => (pc = "Malformed" /\ tick_map = EmptyMap)

\* C10: once the input lines are read no step has more than one possible
\* successor: from the state a step leaves, no step of the program leads to a
\* state other than the one that step reached.
C10_Deterministic ==
  [][pc # "read" =>
       \A reached \in {vars'} : ~ENABLED (Next /\ vars' # reached)]_vars

\* the loop is at its test with several tick keys to select from
C10_Witness ==
  /\ AtWhile /\ more_to_process
  /\ Cardinality(DOMAIN tick_map) >= 2

\* an update with a non-empty tail is in some queue of the map
NonEmptyWaiting ==
  \E k \in DOMAIN tick_map :
    \E i \in 1..Len(tick_map[k]) : tick_map[k][i][2] # <<>>

\* C11: every update with a non-empty remainder placed in the tick map is
\* dequeued and handled before the loop ends: when the loop has ended no
\* update with a non-empty remainder is still waiting in the map.
C11_NoUpdateLeftWaiting ==
  pc \in {"final", "Completed", "Malformed"} => ~NonEmptyWaiting

WaitsNonEmpty(name) ==
  \E k \in DOMAIN tick_map :
    \E i \in 1..Len(tick_map[k]) :
      tick_map[k][i][1] = name /\ tick_map[k][i][2] # <<>>

C13_KeysNotBelowCurrentTick ==
  /\ \A k \in DOMAIN tick_map : k >= current_tick
  /\ pc \in {"for", "final", "Completed", "Malformed"} =>
       \A k \in DOMAIN tick_map : k > current_tick

\* an iteration after tick 0 has re-inserted an update
C13_Witness ==
  /\ pc = "for" /\ idx > 1
  /\ current_tick >= 2
  /\ DOMAIN tick_map # {}

\* C14: every iteration selects the minimum key of the map and removes its
\* whole queue; the selected ticks are strictly increasing; a step never
\* creates a key at or below the tick selected last, so a removed key is never
\* created again.
C14_TicksIncreaseOnce ==
  [][
    /\ (AtWhile /\ pc' = "for") =>
         /\ current_tick' \in DOMAIN tick_map
         /\ \A k \in DOMAIN tick_map : current_tick' <= k
         /\ updates' = tick_map[current_tick']
         /\ DOMAIN tick_map' = (DOMAIN tick_map) \ {current_tick'}
         /\ pc = "for" => current_tick' > current_tick
    /\ pc = "for" =>
         \A k \in (DOMAIN tick_map') \ (DOMAIN tick_map) : k > current_tick
  ]_vars

\* a tick after tick 0 has just been selected among several keys
C14_Witness ==
  /\ pc = "for" /\ idx = 1
  /\ current_tick >= 2
  /\ DOMAIN tick_map # {}

IsSuffix(a, b) == Len(a) <= Len(b) /\ SubSeq(b, Len(b) - Len(a) + 1, Len(b)) = a

\* every tail in the map is a suffix of the input line of its line name
TailsAreSuffixes ==
  \A k \in DOMAIN tick_map :
    \A i \in 1..Len(tick_map[k]) :
      IsSuffix(tick_map[k][i][2], lines[NameIndex(tick_map[k][i][1])])

\* C15: the tail of every update is a suffix of the input line of its line
\* name, and processing an update whose tail starts with an element (R and a
\* digit 0..3, or C) re-inserts the same line name with the tail shortened by
\* exactly that element.
C15_SuffixConsumedByElement ==
  [][
    /\ TailsAreSuffixes'
    /\ (AtUpdate /\ idx' = idx + 1 /\ GrammarTokenLen(CurTail) > 0) =>
         \E k \in DOMAIN tick_map' :
           /\ Len(tick_map'[k]) =
                1 + (IF k \in DOMAIN tick_map THEN Len(tick_map[k]) ELSE 0)
           /\ tick_map'[k][Len(tick_map'[k])] =
                <<CurName, SubSeq(CurTail, GrammarTokenLen(CurTail) + 1, Len(CurTail))>>
  ]_vars

\* the places of the map where an update of that line name is
Occurrences(name) ==
  UNION {{<<k, i>> : i \in {j \in 1..Len(tick_map[k]) : tick_map[k][j][1] = name}} :
           k \in DOMAIN tick_map}

AtMostOnce ==
  \A n \in 1..Len(line_names) : Cardinality(Occurrences(line_names[n])) <= 1

\* C16: each line name occurs in at most one update over the whole map; a
\* line name enters the map only as the update being processed, when an
\* element of its tail is consumed; an update dequeued with an empty tail or
\* dropped with a warning is in no queue afterwards.
C16_EachLineAtMostOnce ==
  [][
    /\ AtMostOnce'
    /\ pc # "read" =>
         NamesInMap' \subseteq
           (NamesInMap \cup
              (IF AtUpdate /\ CurTail # <<>> /\ stderr' = stderr
               THEN {CurName} ELSE {}))
    /\ WarnedNames' \cap NamesInMap' = {}
    /\ \A i \in 1..(idx' - 1) :
         (i <= Len(updates') /\ updates'[i][2] = <<>>) =>
           updates'[i][1] \notin NamesInMap'
  ]_vars

\* a line was dequeued with an empty tail while another line is in the map
C16_Witness ==
  /\ pc = "for" /\ idx > 1
  /\ updates[idx - 1][2] = <<>>
  /\ NamesInMap # {}

\* C17: whenever a result is printed it is the line names of the final
\* tick's queue, in the order of that queue and separated by commas; they are
\* every input line's name exactly once; and that queue was never dequeued:
\* its tick is above every tick the loop selected.
C17_ResultIsPermutation ==
  /\ stdout # <<>> => pc = "Completed"
  /\ pc = "Completed" =>
       /\ Len(stdout) = 1
       /\ DOMAIN tick_map # {}
       /\ LET q == tick_map[SetMax(DOMAIN tick_map)]
              out == stdout[1]
              n == Len(lines)
          IN /\ Len(out) = 2 * n - 1
             /\ \A i \in 1..n : out[2 * i - 1] = q[i][1]
             /\ \A i \in 1..(n - 1) : out[2 * i] = ","
             /\ {out[2 * i - 1] : i \in 1..n} = {line_names[i] : i \in 1..n}
             /\ Cardinality({out[2 * i - 1] : i \in 1..n}) = n
             /\ SetMax(DOMAIN tick_map) > current_tick

\* the result B,A has been printed
C17_Witness ==
  /\ pc = "Completed"
  /\ stdout = <<<<"B", ",", "A">>>>

\* C18: with at least one input line the map is not empty when an iteration
\* starts, so the minimum key exists and the run does not abort; the flag is
\* set only in an iteration that has re-inserted an update.
C18_MapNonEmptyAtLoopStart ==
  /\ (lines # <<>> /\ AtWhile /\ more_to_process) => DOMAIN tick_map # {}
  /\ lines # <<>> => pc # "crashed"
  /\ (pc = "for" /\ more_to_process) =>
       \E i \in 1..(idx - 1) : updates[i][1] \in NamesInMap

\* an iteration after tick 0 ends with the flag set
C18_Witness ==
  /\ pc = "for" /\ idx > Len(updates)
  /\ more_to_process
  /\ current_tick >= 2
====
